---- MODULE Spec2Model ----
(***************************************************************************)
(* wipers (src/main.rs): one process that checks every requested block     *)
(* device for mounts / open handles, then starts one thread per device     *)
(* that overwrites the device `passes` times through a fixed-size buffer   *)
(* and optionally reads it back, and finally joins all threads.            *)
(*                                                                         *)
(* Scale: a byte is 0 (zero) or 1 (any non-zero value); the 1 MiB write    *)
(* and read buffers are BufLen / ReadBufLen bytes long, so that device     *)
(* sizes of half a buffer, one buffer and one and a half buffers exist     *)
(* within MaxSize.  A device is a fixed-length sequence of bytes: a block  *)
(* device does not grow, a write that crosses its end stores the part that *)
(* fits and a read_exact that crosses its end fails with UnexpectedEof.    *)
(* Every I/O call is one step of its thread; the environment may fail any  *)
(* call the code checks the result of.                                     *)
(*                                                                         *)
(* main() uses `?` although it returns (): the operator is read as the     *)
(* error leaving main, which ends the process with a non-zero status.      *)
(***************************************************************************)
EXTENDS Integers, Sequences, FiniteSets, TLC

\* ---------------------------------------------------------------- bounds
MaxSize == 4
MaxPasses == 2
MaxFleetSize == 2

\* ------------------------------------------------------ program constants
\* vec![0u8; 1024 * 1024] of wipe_drive, scaled (1 MiB -> 2 bytes)
BufLen == 2
\* vec![0u8; 1024 * 1024] of verify_wipe, scaled (1 MiB -> 2 bytes)
ReadBufLen == 2

\* the device paths an invocation may name, and the lists of positional
\* arguments tried: one device alone, and a fleet of two
Devices == {"sda", "sdb"}
DeviceLists == {<<"sda">>, <<"sda", "sdb">>}

\* the texts tried after --passes: the numbers 0..MaxPasses, a text that
\* is no number, and no text at all (--passes is the last argument)
NoArg == "<none>"
PassArgs == {ToString(n) : n \in 0..MaxPasses} \cup {"abc", NoArg}

Byte == {0, 1}

\* what a device of `n` bytes may hold before the run: zeros, a single
\* non-zero byte anywhere, or no zero byte at all
Contents(n) ==
    {[i \in 1..n |-> 0], [i \in 1..n |-> 1]}
        \cup {[i \in 1..n |-> IF i = k THEN 1 ELSE 0] : k \in 1..n}

VARIABLES
    devices,       \* the positional arguments, in command-line order
    total_bytes,   \* device -> its size (what blockdev --getsize64 prints)
    content,       \* device -> the bytes stored on it
    use_random,    \* --random / --zero
    verify,        \* --verify
    passes_arg,    \* the argument that follows --passes
    passes,        \* the pass count main holds
    mpc,           \* position of main: "args","check","prompt","spawn","join",
                   \* "exited"
    mi,            \* index into devices / handles of main's current loop
    reported,      \* device -> answer of the mount / in-use check
    exit_status,   \* "running", or the status the process ended with
    worker,        \* device -> the locals of its wipe_drive thread
    io             \* device -> counts of the I/O calls issued to it (history)

vars == <<devices, total_bytes, content, use_random, verify, passes_arg,
          passes, mpc, mi, reported, exit_status, worker, io>>

config == <<devices, total_bytes, use_random, verify, passes_arg, passes>>

NumDevices == Len(devices)
Requested == {devices[i] : i \in 1..Len(devices)}

\* ------------------------------------------------------------ pure parts

\* main.rs:196  is_drive_mounted(device) || is_drive_in_use(device)
IsBusy(mounted, in_use) == mounted \/ in_use

\* main.rs:204  response.trim().eq_ignore_ascii_case("y")
Responses == {"y", "Y", " y\n", "n", "yes", ""}
Trim(r) == IF r = " y\n" THEN "y" ELSE r
IsYes(r) == Trim(r) \in {"y", "Y"}

\* main.rs:175  args[i + 1].parse().unwrap_or(1) into a u32
IsNumber(a) == \E n \in 0..MaxPasses : ToString(n) = a
ParsePasses(a) ==
    IF IsNumber(a) THEN CHOOSE n \in 0..MaxPasses : ToString(n) = a ELSE 1

\* main.rs:104  while written < drive_size
MoreToWriteOnceMore(written, drive_size) == written <= drive_size
MoreToWrite(written, drive_size) == written < drive_size

\* main.rs:57  while read_bytes < drive_size
MoreToRead(read_bytes, drive_size) == read_bytes < drive_size

\* main.rs:100  for pass in 1..=passes
HasPass(p, n) == p <= n

\* main.rs:110 buffer.fill(0) / main.rs:108 rng.fill(&mut buffer[..])
ZeroBuffer == [i \in 1..BufLen |-> 0]
\* the random buffer tried: every byte non-zero
OnesBuffer == [i \in 1..BufLen |-> 1]
Buffers(random) == IF random THEN {OnesBuffer} ELSE {ZeroBuffer}

\* the bytes of `c` after `buf` is written at offset `pos`; the part beyond
\* the end of the device is not stored
WriteAt(c, pos, buf) ==
    [i \in 1..Len(c) |->
        IF i > pos /\ i <= pos + Len(buf) THEN buf[i - pos] ELSE c[i]]

\* the position of the handle after writing `len` bytes at `pos`
Advance(pos, len, size) == IF pos + len <= size THEN pos + len ELSE size

\* main.rs:58  read_exact fills the whole buffer or fails
CanReadExact(pos, len, size) == pos + len <= size
Chunk(c, pos, len) == [i \in 1..len |-> c[pos + i]]

\* main.rs:66  read_buffer.iter().any(|&byte| byte != 0)
AnyNonZeroFirstByte(chunk) == chunk[1] # 0
AnyNonZero(chunk) == \E i \in 1..Len(chunk) : chunk[i] # 0

AllZero(c) == \A i \in 1..Len(c) : c[i] = 0

CeilDiv(a, b) == (a + b - 1) \div b

\* ------------------------------------------------------------ the state

NewWorker ==
    [pc |-> "idle", drive_size |-> 0, pass |-> 0, written |-> 0,
     cursor |-> 0, read_bytes |-> 0, rcursor |-> 0]

\* main.rs:68-71  the error verify_wipe returns for a non-zero byte: an
\* io::Error of kind Other with a fixed message
NoError == [kind |-> "none"]
VerificationError ==
    [kind |-> "Other", message |-> "Verification failed: Non-zero byte found"]

NewIo ==
    [checks |-> 0, writes |-> 0, flushes |-> 0, reads |-> 0, passes_done |-> 0,
     runs |-> 0, fault |-> "none", error |-> NoError]

\* the sizes tried: up to MaxSize for a device wiped alone, up to
\* MaxFleetSize for each device of a fleet; a path that is not requested
\* is a one-byte device the run never touches
Sizes(devs, d) ==
    IF d \notin {devs[i] : i \in 1..Len(devs)} THEN {1}
    ELSE IF Len(devs) = 1 THEN 1..MaxSize
    ELSE 1..MaxFleetSize

Init ==
    /\ devices \in DeviceLists
    /\ total_bytes \in [Devices -> 1..MaxSize]
    /\ \A d \in Devices : total_bytes[d] \in Sizes(devices, d)
    /\ content \in [Devices -> UNION {Contents(n) : n \in 1..MaxSize}]
    /\ \A d \in Devices :
         /\ content[d] \in Contents(total_bytes[d])
         /\ d \notin Requested => content[d] = <<0>>
    /\ use_random \in BOOLEAN
    /\ verify \in BOOLEAN
    /\ passes_arg \in PassArgs
    /\ passes = 1
    /\ mpc = "args"
    /\ mi = 1
    /\ reported = [d \in Devices |-> "unchecked"]
    /\ exit_status = "running"
    /\ worker = [d \in Devices |-> NewWorker]
    /\ io = [d \in Devices |-> NewIo]

Running == exit_status = "running"

\* the thread of `d` has returned or panicked: handle.join() returns
Terminated(d) == worker[d].pc \in {"ok", "err", "panic"}

\* ------------------------------------------------------------------ main

\* the loop index moves to the next device, or the loop ends
NextIndexBreak(loop, after) ==
    /\ mi' = 1
    /\ mpc' = after
NextIndex(loop, after) ==
    IF mi < NumDevices
    THEN /\ mi' = mi + 1
         /\ mpc' = loop
    ELSE /\ mi' = 1
         /\ mpc' = after

\* std::process::exit(code), or main left by an error / a panic
Exit(code) ==
    /\ exit_status' = code
    /\ mpc' = "exited"
    /\ UNCHANGED mi

\* main.rs:158-192  the flags: --passes without a number ends the run,
\* any other text after --passes is parsed into the pass count
main_args ==
    /\ Running /\ mpc = "args"
    /\ IF passes_arg = NoArg
       THEN /\ Exit("1")
            /\ UNCHANGED passes
       ELSE /\ passes' = ParsePasses(passes_arg)
            /\ mpc' = "check"
            /\ UNCHANGED <<mi, exit_status>>
    /\ UNCHANGED <<devices, total_bytes, use_random, verify, passes_arg,
                   content, reported, worker, io>>

\* main.rs:195-196  the mount / in-use check of the next device
main_check ==
    /\ Running /\ mpc = "check"
    /\ LET d == devices[mi] IN
       \E o \in {"answer", "panic"} :
         IF o = "panic"
         THEN \* .expect("Unable to open /proc/mounts"), "Failed to execute lsof"
              /\ Exit("101")
              /\ UNCHANGED <<reported, io>>
         ELSE \E mounted \in BOOLEAN, in_use \in BOOLEAN :
                /\ io' = [io EXCEPT ![d].checks = @ + 1]
                /\ IF IsBusy(mounted, in_use)
                   THEN /\ reported' = [reported EXCEPT ![d] = "busy"]
                        /\ mpc' = "prompt"
                        /\ UNCHANGED <<mi, exit_status>>
                   ELSE /\ reported' = [reported EXCEPT ![d] = "clear"]
                        /\ NextIndex("check", "spawn")
                        /\ UNCHANGED exit_status
    /\ UNCHANGED <<config, content, worker>>

\* main.rs:197-210  the prompt, the answer and unmount_drive
main_prompt ==
    /\ Running /\ mpc = "prompt"
    /\ LET d == devices[mi] IN
       \E stdio_ok \in BOOLEAN, r \in Responses, umount_ran \in BOOLEAN :
         IF ~stdio_ok
         THEN \* io::stdout().flush()? / io::stdin().read_line(..)?
              /\ Exit("1")
              /\ UNCHANGED reported
         ELSE IF IsYes(r)
         THEN IF umount_ran
              THEN \* unmount_drive: the status of umount is discarded
                   /\ NextIndex("check", "spawn")
                   /\ UNCHANGED <<reported, exit_status>>
              ELSE \* unmount_drive(device)?  (sudo could not be started)
                   /\ Exit("1")
                   /\ UNCHANGED reported
         ELSE \* std::process::exit(1): the user declines
              /\ Exit("1")
              /\ reported' = [reported EXCEPT ![d] = "declined"]
    /\ UNCHANGED <<config, content, worker, io>>

\* main.rs:218-226  thread::spawn for the next device
main_spawn ==
    /\ Running /\ mpc = "spawn"
    /\ worker' = [worker EXCEPT ![devices[mi]].pc = "open"]
    /\ NextIndex("spawn", "join")
    /\ UNCHANGED <<config, content, reported, exit_status, io>>

\* main.rs:229-234  handle.join() of the next thread; main returns after
\* the last one
main_join ==
    /\ Running /\ mpc = "join"
    /\ Terminated(devices[mi])
    /\ IF mi < NumDevices
       THEN /\ mi' = mi + 1
            /\ UNCHANGED <<mpc, exit_status>>
       ELSE Exit("0")
    /\ UNCHANGED <<config, content, reported, worker, io>>

\* ------------------------------------------------------------ wipe_drive

\* main.rs:104, 123  the write loop goes on, or the pass is flushed
AfterWriteUnflushed(written, drive_size) ==
    IF MoreToWrite(written, drive_size) THEN "write" ELSE "seek"
AfterWrite(written, drive_size) ==
    IF MoreToWrite(written, drive_size) THEN "write" ELSE "flush"

\* main.rs:128-137  after the last pass: verify_wipe, or return Ok
AfterPassesAlwaysVerify(w) == [w EXCEPT !.pc = "vopen"]
AfterPasses(w) ==
    IF verify THEN [w EXCEPT !.pc = "vopen"] ELSE [w EXCEPT !.pc = "ok"]

\* main.rs:100-104  the head of pass `p`: written = 0, then the write loop
BeginPassNoReset(w, p) ==
    IF HasPass(p, passes)
    THEN [w EXCEPT !.pass = p, !.pc = AfterWrite(w.written, w.drive_size)]
    ELSE AfterPasses(w)
BeginPass(w, p) ==
    IF HasPass(p, passes)
    THEN [w EXCEPT !.pass = p, !.written = 0,
                   !.pc = AfterWrite(0, w.drive_size)]
    ELSE AfterPasses(w)

\* the call failed: wipe_drive returns Err (`?`) and the closure of the
\* thread prints "Failed to wipe" (main.rs:221-223)
FailAndCarryOn(d, pc, why) ==
    /\ io' = [io EXCEPT ![d].fault = why]
    /\ UNCHANGED worker
Fail(d, pc, why) ==
    /\ worker' = [worker EXCEPT ![d].pc = pc]
    /\ io' = [io EXCEPT ![d].fault = why]

\* main.rs:84  OpenOptions::new().write(true).open(device)?
wipe_drive_open(d) ==
    /\ Running /\ worker[d].pc = "open"
    /\ \E ok \in BOOLEAN :
         IF ok
         THEN /\ worker' = [worker EXCEPT ![d].pc = "size", ![d].cursor = 0]
              /\ UNCHANGED io
         ELSE Fail(d, "err", "open")
    /\ UNCHANGED <<config, content, mpc, mi, reported, exit_status>>

\* main.rs:90, 95  the size query failed: output()? returns Err when
\* blockdev cannot be run, parse().unwrap() panics in the thread when its
\* output is no number; the process goes on
SizeQueryAborts(d, r) ==
    /\ Fail(d, IF r = "not_run" THEN "err" ELSE "panic", "size")
    /\ IF r = "not_run"
       THEN UNCHANGED <<mpc, exit_status>>
       ELSE exit_status' = "101" /\ mpc' = "exited"
SizeQueryFailed(d, r) ==
    /\ Fail(d, IF r = "not_run" THEN "err" ELSE "panic", "size")
    /\ UNCHANGED <<mpc, exit_status>>

\* main.rs:87-95  blockdev --getsize64, output()? and parse().unwrap()
wipe_drive_size(d) ==
    /\ Running /\ worker[d].pc = "size"
    /\ \E r \in {"number", "not_run", "garbage"} :
         IF r = "number"
         THEN /\ worker' = [worker EXCEPT ![d] =
                     BeginPass([@ EXCEPT !.drive_size = total_bytes[d]], 1)]
              /\ UNCHANGED <<io, mpc, exit_status>>
         ELSE SizeQueryFailed(d, r)
    /\ UNCHANGED <<config, content, mi, reported>>

\* main.rs:104-120  one turn of the write loop: fill the buffer,
\* write_all(&buffer)?, written += buffer.len()
wipe_drive_write(d) ==
    /\ Running /\ worker[d].pc = "write"
    /\ LET w == worker[d]
           fits == w.cursor + BufLen <= total_bytes[d]
       IN \E buf \in Buffers(use_random), r \in {"ok", "eio", "clip", "enospc"} :
            CASE r = "eio" ->
                   /\ Fail(d, "err", "eio")
                   /\ UNCHANGED content
              [] r = "enospc" ->
                   \* the write crosses the end of the device and is rejected
                   /\ ~fits
                   /\ content' = [content EXCEPT ![d] = WriteAt(@, w.cursor, buf)]
                   /\ worker' = [worker EXCEPT ![d].pc = "err",
                          ![d].cursor = Advance(w.cursor, BufLen, total_bytes[d])]
                   /\ io' = [io EXCEPT ![d].fault = "enospc",
                                       ![d].writes = @ + 1]
              [] OTHER ->
                   \* the whole buffer is taken ("ok"), or the device clips it
                   /\ (r = "ok" /\ fits) \/ (r = "clip" /\ ~fits)
                   /\ content' = [content EXCEPT ![d] = WriteAt(@, w.cursor, buf)]
                   /\ worker' = [worker EXCEPT
                          ![d].cursor = Advance(w.cursor, BufLen, total_bytes[d]),
                          ![d].written = w.written + BufLen,
                          ![d].pc = AfterWrite(w.written + BufLen, w.drive_size)]
                   /\ io' = [io EXCEPT ![d].writes = @ + 1]
    /\ UNCHANGED <<config, mpc, mi, reported, exit_status>>

\* main.rs:123  file.flush()?
wipe_drive_flush(d) ==
    /\ Running /\ worker[d].pc = "flush"
    /\ \E ok \in BOOLEAN :
         IF ok
         THEN /\ worker' = [worker EXCEPT ![d].pc = "seek"]
              /\ io' = [io EXCEPT ![d].flushes = @ + 1]
         ELSE Fail(d, "err", "eio")
    /\ UNCHANGED <<config, content, mpc, mi, reported, exit_status>>

\* main.rs:124-126  file.seek(SeekFrom::Start(0))?, the pass is complete,
\* and the head of the next pass
wipe_drive_seek(d) ==
    /\ Running /\ worker[d].pc = "seek"
    /\ \E ok \in BOOLEAN :
         IF ok
         THEN /\ worker' = [worker EXCEPT ![d] =
                     BeginPass([@ EXCEPT !.cursor = 0], @.pass + 1)]
              /\ io' = [io EXCEPT ![d].passes_done = @ + 1]
         ELSE Fail(d, "err", "eio")
    /\ UNCHANGED <<config, content, mpc, mi, reported, exit_status>>

\* ----------------------------------------------------------- verify_wipe

\* main.rs:130-133  verify_wipe returned Err: wipe_drive prints
\* "Verification failed" and calls std::process::exit(1)
VerifyErr(d, why) ==
    /\ worker' = [worker EXCEPT ![d].pc = "vfail"]
    /\ io' = [io EXCEPT ![d].fault = why]
    /\ exit_status' = "1"
    /\ mpc' = "exited"

\* main.rs:48-51  open(device).expect("Failed to open device ...")
verify_wipe_open(d) ==
    /\ Running /\ worker[d].pc = "vopen"
    /\ \E ok \in BOOLEAN :
         IF ok
         THEN /\ worker' = [worker EXCEPT ![d].pc = "vseek", ![d].rcursor = 0]
              /\ io' = [io EXCEPT ![d].runs = @ + 1]
         ELSE Fail(d, "panic", "open")
    /\ UNCHANGED <<config, content, mpc, mi, reported, exit_status>>

\* main.rs:53-57  file.seek(SeekFrom::Start(0))?, read_bytes = 0 and the
\* head of the read loop
VerifySeekKeepsCount(d) ==
    /\ Running /\ worker[d].pc = "vseek"
    /\ \E ok \in BOOLEAN :
         IF ok
         THEN /\ worker' = [worker EXCEPT
                     ![d].rcursor = 0,
                     ![d].pc = IF MoreToRead(worker[d].read_bytes,
                                             worker[d].drive_size)
                               THEN "vread" ELSE "ok"]
              /\ UNCHANGED <<io, exit_status, mpc>>
         ELSE VerifyErr(d, "eio")
    /\ UNCHANGED <<config, content, mi, reported>>
verify_wipe_seek(d) ==
    /\ Running /\ worker[d].pc = "vseek"
    /\ \E ok \in BOOLEAN :
         IF ok
         THEN /\ worker' = [worker EXCEPT
                     ![d].rcursor = 0, ![d].read_bytes = 0,
                     ![d].pc = IF MoreToRead(0, worker[d].drive_size)
                               THEN "vread" ELSE "ok"]
              /\ UNCHANGED <<io, exit_status, mpc>>
         ELSE VerifyErr(d, "eio")
    /\ UNCHANGED <<config, content, mi, reported>>

\* main.rs:57-76  one turn of the read loop: read_exact(&mut read_buffer)?,
\* the check of the chunk, read_bytes += read_buffer.len()
verify_wipe_read(d) ==
    /\ Running /\ worker[d].pc = "vread"
    /\ LET w == worker[d] IN
       \E ok \in BOOLEAN :
         IF ~ok
         THEN VerifyErr(d, "eio")
         ELSE IF ~CanReadExact(w.rcursor, ReadBufLen, total_bytes[d])
         THEN \* UnexpectedEof
              VerifyErr(d, "eof")
         ELSE IF use_random
         THEN \* warning, break, Ok(())
              /\ worker' = [worker EXCEPT ![d].pc = "ok",
                                  ![d].rcursor = w.rcursor + ReadBufLen]
              /\ io' = [io EXCEPT ![d].reads = @ + 1]
              /\ UNCHANGED <<exit_status, mpc>>
         ELSE IF AnyNonZero(Chunk(content[d], w.rcursor, ReadBufLen))
         THEN /\ worker' = [worker EXCEPT ![d].pc = "vfail",
                                  ![d].rcursor = w.rcursor + ReadBufLen]
              /\ io' = [io EXCEPT ![d].reads = @ + 1, ![d].fault = "mismatch",
                                  ![d].error = VerificationError]
              /\ exit_status' = "1"
              /\ mpc' = "exited"
         ELSE /\ worker' = [worker EXCEPT
                     ![d].rcursor = w.rcursor + ReadBufLen,
                     ![d].read_bytes = w.read_bytes + ReadBufLen,
                     ![d].pc = IF MoreToRead(w.read_bytes + ReadBufLen,
                                             w.drive_size)
                               THEN "vread" ELSE "ok"]
              /\ io' = [io EXCEPT ![d].reads = @ + 1]
              /\ UNCHANGED <<exit_status, mpc>>
    /\ UNCHANGED <<config, content, mi, reported>>

\* ------------------------------------------------------ the specification

Next ==
    \/ main_args
    \/ main_check
    \/ main_prompt
    \/ main_spawn
    \/ main_join
    \/ \E d \in Devices : wipe_drive_open(d)
    \/ \E d \in Devices : wipe_drive_size(d)
    \/ \E d \in Devices : wipe_drive_write(d)
    \/ \E d \in Devices : wipe_drive_flush(d)
    \/ \E d \in Devices : wipe_drive_seek(d)
    \/ \E d \in Devices : verify_wipe_open(d)
    \/ \E d \in Devices : verify_wipe_seek(d)
    \/ \E d \in Devices : verify_wipe_read(d)

Spec == Init /\ [][Next]_vars

\* verify_wipe applied a second time to a device it has just accepted:
\* the call of main.rs:130 made once more, with one device requested
verify_again(d) ==
    /\ Running /\ verify
    /\ worker[d].pc = "ok" /\ io[d].runs = 1
    /\ worker' = [worker EXCEPT ![d].pc = "vopen"]
    /\ UNCHANGED <<config, content, mpc, mi, reported, exit_status, io>>

InitAlone == Init /\ Len(devices) = 1

NextReverify ==
    \/ Next
    \/ \E d \in Devices : verify_again(d)

SpecReverify == InitAlone /\ [][NextReverify]_vars

TypeOK ==
    /\ exit_status \in {"running", "0", "1", "101"}
    /\ mpc \in {"args", "check", "prompt", "spawn", "join", "exited"}
    /\ passes \in 0..MaxPasses
    /\ mi \in 1..NumDevices
    /\ \A d \in Devices :
         /\ d \notin Requested => worker[d].pc = "idle"
         /\ reported[d] \in {"unchecked", "clear", "busy", "declined"}
         /\ Len(content[d]) = total_bytes[d]
         /\ worker[d].pc \in {"idle", "open", "size", "write", "flush", "seek",
                               "vopen", "vseek", "vread",
                               "ok", "err", "panic", "vfail"}
         /\ worker[d].cursor \in 0..total_bytes[d]

\* ------------------------------------------------------------ the claims

Failed(d) == worker[d].pc \in {"err", "panic", "vfail"}
Ended(d) == worker[d].pc \in {"ok", "err", "panic", "vfail"}
PassesOver(d) == worker[d].pc \in {"vopen", "vseek", "vread", "ok", "vfail"}

\* nothing but the code stands between the device and Success: the
\* environment failed no call, no write or read crosses the end of the
\* device, and a zero verification without a pass finds zeros
AbleToSucceed(d) ==
    /\ reported[d] # "declined"
    /\ io[d].fault = "none"
    /\ total_bytes[d] % BufLen = 0
    /\ total_bytes[d] % ReadBufLen = 0
    /\ (verify /\ ~use_random /\ passes = 0) => AllZero(content[d])

\* C1: a device the mount / in-use check reported as busy is never
\* written: no write call is ever issued to it.
C1_NoWriteToBusyDevice ==
    \A d \in Requested :
        reported[d] \in {"busy", "declined"} => io[d].writes = 0

\* C2: when device A fails its precondition check and device B is able to
\* succeed, the invocation still wipes B and ends with B's outcome Success.
C2_Independence ==
    \A a \in Requested, b \in Requested :
        (a # b /\ ~Running /\ reported[a] = "declined" /\ AbleToSucceed(b))
            => worker[b].pc = "ok"

\* C3: a failure inside the worker of one device (an I/O error, the panic
\* of the size query, a failed verification) does not end the coordinator
\* with a failure status of its own, and when the process has ended every
\* other worker has reached its own terminal outcome.
C3_WorkerFailureContained ==
    \A d \in Requested :
        Failed(d) =>
            /\ exit_status \in {"running", "0"}
            /\ ~Running => \A e \in Requested \ {d} : Ended(e)

\* C4: a zero-fill wipe with verify = true that completes with Success
\* leaves every byte of the device in [0, total_bytes) zero.
C4_VerifiedZeroWipeIsZero ==
    \A d \in Requested :
        (~use_random /\ verify /\ worker[d].pc = "ok") => AllZero(content[d])

C4_Witness ==
    \E d \in Requested :
        /\ ~use_random /\ verify /\ worker[d].pc = "ok"
        /\ io[d].writes > 0 /\ io[d].reads > 1

\* C5: with pass_count N >= 1 and no I/O failure the writer performs
\* exactly N passes; each pass starts at offset 0, its write calls cover
\* the device, and it takes ceil(total_bytes / B) writes (total_bytes / B
\* when B divides total_bytes), N times that in total.
C5_PassesAndWrites ==
    \A d \in Requested :
        LET w == worker[d]
            perPass == CeilDiv(total_bytes[d], BufLen)
        IN /\ (w.pc = "write" /\ w.written = 0) => w.cursor = 0
           /\ w.pc \in {"flush", "seek"} =>
                /\ w.written >= total_bytes[d]
                /\ w.cursor = total_bytes[d]
                /\ w.written = BufLen * perPass
                /\ io[d].writes = w.pass * perPass
           /\ (passes >= 1 /\ PassesOver(d)) =>
                /\ io[d].passes_done = passes
                /\ io[d].writes = passes * perPass
                /\ total_bytes[d] % BufLen = 0 =>
                      io[d].writes = passes * (total_bytes[d] \div BufLen)

C5_Witness ==
    \E d \in Requested :
        /\ passes >= 2 /\ worker[d].pc = "ok"
        /\ total_bytes[d] > BufLen /\ total_bytes[d] % BufLen = 0
        /\ io[d].writes = passes * (total_bytes[d] \div BufLen)

\* C6: a pass never writes more than total_bytes bytes, and a completed
\* pass has written exactly total_bytes bytes, also when total_bytes is
\* not a multiple of the buffer size.
C6_ExactBytesPerPass ==
    \A d \in Requested :
        /\ worker[d].written <= total_bytes[d]
        /\ worker[d].pc = "flush" => worker[d].written = total_bytes[d]

\* C7: the zero verification of a device whose bytes are all zero ends in
\* Success whatever the size of the device, unless the environment fails
\* one of its calls.
C7_ZeroDeviceVerifies ==
    \A d \in Requested :
        (~use_random /\ AllZero(content[d]) /\ worker[d].pc = "vfail")
            => io[d].fault = "eio"

\* C8: the verification of a random fill never ends in a verification
\* failure, whatever the content and the size of the device, unless the
\* environment fails one of its calls.
C8_RandomNeverFailsVerification ==
    \A d \in Requested :
        (use_random /\ worker[d].pc = "vfail") => io[d].fault = "eio"

\* C9: within one device a write of pass k is issued only when the flushes
\* of the passes 1..k-1 have completed, and a verification read only when
\* the flushes of all passes have completed.
C9_PassesSequential ==
    [][\A d \in Requested :
         /\ io'[d].writes # io[d].writes =>
               io[d].flushes = worker[d].pass - 1
         /\ io'[d].reads # io[d].reads => io[d].flushes = passes]_vars

C9_Witness ==
    \E d \in Requested :
        /\ passes >= 2 /\ io[d].reads > 0 /\ io[d].flushes = passes
        /\ io[d].writes >= 2

\* C10: the process ends with status zero only when every requested
\* device reached Success.
C10_ExitStatus ==
    exit_status = "0" => \A d \in Requested : worker[d].pc = "ok"

\* C11: an invocation whose --passes argument is not a positive integer
\* starts no worker and issues no I/O to any device.
IsPositiveNumber(a) == IsNumber(a) /\ ParsePasses(a) >= 1
C11_BadPassCountRejected ==
    ~IsPositiveNumber(passes_arg) =>
        \A d \in Requested :
            /\ worker[d].pc = "idle"
            /\ io[d].writes = 0 /\ io[d].reads = 0 /\ io[d].flushes = 0

\* C12: a write or flush error during a pass ends the wipe of that device
\* with the I/O failure outcome, and after it no write, flush, later pass
\* or verification read is issued to the device.
C12_IoErrorEndsWipe ==
    /\ [](\A d \in Requested :
            /\ (io[d].fault \in {"eio", "enospc"} /\ io[d].runs = 0)
                  => worker[d].pc = "err"
            /\ worker[d].pc = "err" => io[d].reads = 0 /\ io[d].runs = 0)
    /\ [][\A d \in Requested :
            worker[d].pc = "err" =>
                worker'[d] = worker[d] /\ io'[d] = io[d]]_vars

C12_Witness ==
    \E d \in Requested :
        /\ worker[d].pc = "err" /\ io[d].fault \in {"eio", "enospc"}
        /\ io[d].writes >= 1 /\ worker[d].pass < passes /\ verify

\* C13: once workers have been started the coordinator does not finish
\* before every requested device has its terminal outcome: the process
\* does not end while a worker is still on its way.
C13_CoordinatorWaitsForAll ==
    (~Running /\ \E d \in Requested : worker[d].pc # "idle")
        => \A d \in Requested : Ended(d)

\* C14: the failure a zero verification yields at the first chunk with a
\* non-zero byte carries the byte offset of that chunk.
C14_FailureCarriesOffset ==
    \A d \in Requested :
        io[d].fault = "mismatch" =>
            /\ "offset" \in DOMAIN io[d].error
            /\ io[d].error.offset = worker[d].read_bytes

\* C15: verification is entered only with verify = true and after all
\* pass_count passes have completed; with verify = false a wipe whose
\* passes have completed is Success and has issued no read.
InVerification(d) ==
    \/ worker[d].pc \in {"vopen", "vseek", "vread", "vfail"}
    \/ io[d].runs > 0 \/ io[d].reads > 0
C15_VerifyingOnlyWhenAsked ==
    \A d \in Requested :
        /\ InVerification(d) =>
              /\ verify
              /\ io[d].passes_done = passes /\ io[d].flushes = passes
        /\ ~verify => io[d].reads = 0
        /\ (~verify /\ worker[d].pc = "ok") => io[d].passes_done = passes
        /\ (~verify /\ io[d].passes_done = passes /\ worker[d].drive_size > 0)
              => worker[d].pc = "ok"

C15_Witness ==
    \E d \in Requested :
        /\ ~verify /\ worker[d].pc = "ok" /\ passes >= 2
        /\ io[d].passes_done = passes /\ io[d].reads = 0

\* C16: within a pass the bytes_written counter is the buffer size times
\* the number of writes issued so far in that pass, so it is 0 when the
\* pass starts, and the write cursor is then at offset 0.
C16_PassProgress ==
    \A d \in Requested :
        LET w == worker[d]
            perPass == CeilDiv(total_bytes[d], BufLen)
        IN w.pc \in {"write", "flush", "seek"} =>
             /\ w.written = BufLen * (io[d].writes - (w.pass - 1) * perPass)
             /\ io[d].writes = (w.pass - 1) * perPass =>
                   w.written = 0 /\ w.cursor = 0
             /\ w.pc = "write" => w.cursor = w.written

C16_Witness ==
    \E d \in Requested :
        /\ worker[d].pass = 2 /\ worker[d].pc = "write"
        /\ worker[d].written = BufLen /\ io[d].writes = 3

\* C17: a verification run issues no write or flush and leaves the bytes
\* of the device as they are, and a second run on a device the first run
\* accepted reads the same chunks and accepts it again (unless the
\* environment fails one of its calls).
CleanReads(d) ==
    IF use_random THEN 1 ELSE CeilDiv(total_bytes[d], ReadBufLen)
C17_VerifyReadOnlyIdempotent ==
    /\ [][\A d \in Requested :
            worker[d].pc \in {"vopen", "vseek", "vread"} =>
                /\ content'[d] = content[d]
                /\ io'[d].writes = io[d].writes
                /\ io'[d].flushes = io[d].flushes]_vars
    /\ [](\A d \in Requested :
            io[d].runs = 2 =>
                /\ worker[d].pc = "vfail" => io[d].fault = "eio"
                /\ worker[d].pc = "ok" => io[d].reads = 2 * CleanReads(d))

C17_Witness ==
    \E d \in Requested :
        /\ io[d].runs = 2 /\ worker[d].pc = "ok" /\ ~use_random
        /\ io[d].writes > 0 /\ io[d].reads = 4

\* C18: a failed size query ends the worker of that device with a failure
\* and without a write, flush or read issued to the device; it does not
\* end the process, and when the process has ended every other worker has
\* reached its own terminal outcome.
C18_SizeFailureContained ==
    \A d \in Requested :
        io[d].fault = "size" =>
            /\ worker[d].pc \in {"err", "panic"}
            /\ io[d].writes = 0 /\ io[d].flushes = 0 /\ io[d].reads = 0
            /\ exit_status # "101"
            /\ ~Running => \A e \in Requested \ {d} : Ended(e)

C18_Witness ==
    \E d \in Requested, e \in Requested :
        /\ d # e /\ io[d].fault = "size" /\ worker[d].pc = "panic"
        /\ worker[e].pc = "ok" /\ io[e].writes > 0 /\ exit_status = "0"

\* C19: the mount / in-use check is made once per device, and no worker
\* is started and no write issued to any device before the check of
\* every requested device has been made.
C19_CheckOnceBeforeAnyWrite ==
    \A d \in Requested :
        /\ io[d].checks <= 1
        /\ (\E e \in Requested : worker[e].pc # "idle" \/ io[e].writes > 0)
              => /\ io[d].checks = 1
                 /\ reported[d] \in {"clear", "busy"}

C19_Witness ==
    \E d \in Requested, e \in Requested :
        /\ d # e /\ io[d].writes > 0 /\ reported[e] = "busy"
        /\ io[d].checks = 1 /\ io[e].checks = 1

====
